---- MODULE Spec2Model ----
(***************************************************************************)
(* Intrinio balance-sheet provider (openbb_intrinio/models/balance_sheet). *)
(* The fetcher is a three-stage pipeline:                                  *)
(*   transform_query -> aextract_data -> transform_data                    *)
(* Python values are modelled as tagged records so that values of          *)
(* different Python types can be compared: None, Num(n), Str(s).           *)
(* Strings that the code indexes or rewrites character by character (the   *)
(* symbol) are sequences of one-character strings.                         *)
(***************************************************************************)
EXTENDS Integers, Sequences, FiniteSets, TLC

VARIABLES
    pc,          \* position of the fetch: start, invalid, constructed, listing,
                 \* requests, failed, extracted, done
    params,      \* the caller's mapping handed to transform_query
    query,       \* the IntrinioBalanceSheetQueryParams object, NoQuery before
    credentials, \* the credentials mapping handed to aextract_data
    warnings,    \* number of calls of _warn
    listingUrl,  \* the fundamentals listing request that was issued
    listing,     \* the "fundamentals" list the vendor answered with
    urls,        \* the per-period requests handed to amake_requests
    slots,       \* per request: Pending, or the outcome that arrived
    overtaken,   \* TRUE once a request completed before an earlier one
    result,      \* what aextract_data returned (the raw statements)
    records      \* what transform_data returned

vars == <<pc, params, query, credentials, warnings, listingUrl, listing,
          urls, slots, overtaken, result, records>>

\* ------------------------------------------------------------------ bounds

MaxSymLen == 2
MaxLimit == 2
MaxListing == 3
MaxData == 2
MaxItems == 2

\* ------------------------------------------------------------ Python values

None == [k |-> "none"]
Num(n) == [k |-> "num", n |-> n]
Str(s) == [k |-> "str", s |-> s]

\* bool(v): None, 0, 0.0 and "" are falsy.
Truthy(v) ==
    CASE v.k = "none" -> FALSE
      [] v.k = "num" -> v.n # 0
      [] v.k = "str" -> v.s # ""
      [] OTHER -> TRUE

\* v == 0 in Python: only a number compares equal to zero.
EqZero(v) == v.k = "num" /\ v.n = 0

\* float(v) for a number or a numeric string.
NumericStrings == [s \in {"0", "3"} |-> IF s = "0" THEN 0 ELSE 3]
float(v) ==
    IF v.k = "str" THEN Num(NumericStrings[v.s]) ELSE Num(v.n)

Min(a, b) == IF a <= b THEN a ELSE b

SeqsUpTo(S, n) == UNION {[1..m -> S] : m \in 0..n}

\* ------------------------------------------------------- query construction

\* period: Literal["annual", "quarter"]
PeriodLiteral == {"annual", "quarter"}

\* validate_period, run after the Literal check.
validate_period(v) == IF v = "annual" THEN "FY" ELSE "QTR"

\* handle_symbol: str.replace("-", ".") replaces every occurrence.
handle_symbol_first(v) ==
    [i \in 1..Len(v) |->
        IF v[i] = "-" /\ (\A j \in 1..(i - 1) : v[j] # "-") THEN "." ELSE v[i]]
handle_symbol(v) == [i \in 1..Len(v) |-> IF v[i] = "-" THEN "." ELSE v[i]]

NoQuery == [k |-> "noquery"]

\* IntrinioBalanceSheetQueryParams(**params): the query object, or NoQuery when
\* validation raises.
transform_query_unchecked(p) ==
    [symbol |-> handle_symbol(p.symbol),
     period |-> validate_period(p.period),
     fiscal_year |-> p.fiscal_year,
     limit |-> p.limit]
transform_query(p) ==
    IF p.period \notin PeriodLiteral
    THEN NoQuery
    ELSE [symbol |-> handle_symbol(p.symbol),
          period |-> validate_period(p.period),
          fiscal_year |-> p.fiscal_year,
          limit |-> p.limit]

\* ------------------------------------------------------------- aextract_data

\* "Reports do not go beyond 2008": the vendor's first fiscal year.
FiscalYearFloor == 2008

statement_code == "balance_sheet_statement"

\* credentials.get("intrinio_api_key") if credentials else ""
\* (a dict is a function on its keys; None and the empty dict are falsy).
EmptyDict == <<>>
api_key_of(c) ==
    IF c = None \/ c = EmptyDict THEN Str("")
    ELSE IF "intrinio_api_key" \in DOMAIN c THEN Str(c.intrinio_api_key)
    ELSE None

\* if query.fiscal_year < 2008
below_floor_inclusive(fy) == fy.n <= FiscalYearFloor
below_floor(fy) == fy.n < FiscalYearFloor

\* The query after the fiscal_year block: clamped when below the floor.
clamped_query(q) ==
    IF q.fiscal_year # None /\ below_floor(q.fiscal_year)
    THEN [q EXCEPT !.fiscal_year = Num(FiscalYearFloor)]
    ELSE q

\* Number of _warn calls made by the fiscal_year block.
clamp_warnings(q) ==
    IF q.fiscal_year # None /\ below_floor(q.fiscal_year) THEN 1 ELSE 0

\* fundamentals_url: the query string is a record of its parameters; the
\* fiscal_year parameter is present only when the query carries one.
fundamentals_url(q, key) ==
    IF q.fiscal_year # None
    THEN [endpoint |-> "companies/fundamentals", symbol |-> q.symbol,
          statement_code |-> statement_code, type |-> q.period,
          fiscal_year |-> q.fiscal_year.n, api_key |-> key]
    ELSE [endpoint |-> "companies/fundamentals", symbol |-> q.symbol,
          statement_code |-> statement_code, type |-> q.period,
          api_key |-> key]

\* (await get_data_one(...)).get("fundamentals", [])
fundamentals_of(body) ==
    IF "fundamentals" \in DOMAIN body THEN body.fundamentals ELSE <<>>

\* item['fiscal_year'] and item['fiscal_period'] raise KeyError on an entry
\* that lacks one of them.
entry_ok(item) == {"fiscal_year", "fiscal_period"} \subseteq DOMAIN item

\* f"{item['fiscal_year']}-{item['fiscal_period']}": the token is the pair.
fiscal_period_token(item) == <<item.fiscal_year, item.fiscal_period>>

\* seq[:n] for an integer n (a negative n counts from the end).
slice_to_off_by_one(s, n) == SubSeq(s, 1, Min(n + 1, Len(s)))
slice_to(s, n) ==
    IF n >= 0 THEN SubSeq(s, 1, Min(n, Len(s)))
    ELSE SubSeq(s, 1, IF Len(s) + n > 0 THEN Len(s) + n ELSE 0)

\* fiscal_periods, after the truncation to query.limit.
fiscal_periods_of(data, limit) ==
    slice_to([i \in 1..Len(data) |-> fiscal_period_token(data[i])], limit)

\* urls: one standardized_financials request per retained period, in order.
statement_urls_reversed(q, periods, key) ==
    [i \in 1..Len(periods) |->
        [endpoint |-> "fundamentals/standardized_financials",
         symbol |-> q.symbol, statement_code |-> statement_code,
         period |-> periods[Len(periods) + 1 - i], api_key |-> key]]
statement_urls_first_only(q, periods, key) ==
    [i \in 1..Len(periods) |->
        [endpoint |-> "fundamentals/standardized_financials",
         symbol |-> q.symbol, statement_code |-> statement_code,
         period |-> periods[1], api_key |-> key]]
statement_urls(q, periods, key) ==
    [i \in 1..Len(periods) |->
        [endpoint |-> "fundamentals/standardized_financials",
         symbol |-> q.symbol, statement_code |-> statement_code,
         period |-> periods[i], api_key |-> key]]

\* callback: the raw statement read from a response body, KeyError when the
\* body lacks a field the callback indexes.
KeyError == [k |-> "KeyError"]
body_ok(b) ==
    /\ {"fundamental", "standardized_financials"} \subseteq DOMAIN b
    /\ {"end_date", "fiscal_year", "fiscal_period"} \subseteq DOMAIN b.fundamental
callback_lenient(b) ==
    [period_ending |-> b.fundamental.end_date,
     fiscal_year |-> b.fundamental.fiscal_year,
     fiscal_period |-> b.fundamental.fiscal_period,
     financials |-> IF "standardized_financials" \in DOMAIN b
                    THEN b.standardized_financials ELSE <<>>]
callback(b) ==
    IF body_ok(b)
    THEN [period_ending |-> b.fundamental.end_date,
          fiscal_year |-> b.fundamental.fiscal_year,
          fiscal_period |-> b.fundamental.fiscal_period,
          financials |-> b.standardized_financials]
    ELSE KeyError

\* amake_requests(urls, callback): every request runs on its own and writes
\* its outcome to its own slot; the helper returns the outcomes in request
\* order once all have succeeded, and raises when one has failed.
Pending == [k |-> "pending"]
NetError == [k |-> "neterror"]
Arrived(b, v) == [k |-> "arrived", body |-> b, value |-> v]
slot_failed(s) == s = NetError \/ (s.k = "arrived" /\ s.value = KeyError)
slot_done(s) == s.k = "arrived" /\ s.value # KeyError
amake_requests_raises(sl) == \E i \in DOMAIN sl : slot_failed(sl[i])
amake_requests_returns(sl) == \A i \in DOMAIN sl : slot_done(sl[i])
amake_requests_result(sl) == [i \in DOMAIN sl |-> sl[i].value]

\* What a stage handed back: nothing yet (or an exception), or a list.
NoResult == [k |-> "noresult"]
Returned(list) == [k |-> "returned", list |-> list]

\* ------------------------------------------------------------ transform_data

\* __alias_dict__: standardized field -> vendor tag (two of its entries).
alias_dict ==
    [f \in {"cash_and_cash_equivalents", "total_assets"} |->
        IF f = "cash_and_cash_equivalents" THEN "cashandequivalents"
        ELSE "totalassets"]
StandardFields == DOMAIN alias_dict
BaseFields == {"period_ending", "fiscal_year", "fiscal_period"}

\* d[key] = value on a dict (a function on its keys).
dict_set(d, key, value) ==
    [x \in DOMAIN d \cup {key} |-> IF x = key THEN value ELSE d[x]]

\* float(value) if value and value != 0 else None
coerce(v) == IF Truthy(v) /\ ~EqZero(v) THEN float(v) ELSE None

\* for sub_item in item["financials"]: sub_dict[tag] = coerce(value)
RECURSIVE fill_first_tag(_, _, _)
fill_first_tag(d, fin, first) ==
    IF fin = <<>> THEN d
    ELSE fill_first_tag(dict_set(d, first, coerce(Head(fin).value)),
                        Tail(fin), first)
RECURSIVE fill_sub_dict(_, _)
fill_sub_dict_first(d, fin) ==
    IF fin = <<>> THEN d ELSE fill_first_tag(d, fin, fin[1].data_tag.tag)
fill_sub_dict(d, fin) ==
    IF fin = <<>> THEN d
    ELSE fill_sub_dict(dict_set(d, Head(fin).data_tag.tag,
                                coerce(Head(fin).value)),
                       Tail(fin))

\* The Q4 correction: "Intrinio does not return Q4 data but FY data instead".
fiscal_period_out_annual(q, item) ==
    IF q.period = "FY" /\ item.fiscal_period = Str("FY")
    THEN Str("Q4") ELSE item.fiscal_period
fiscal_period_out(q, item) ==
    IF q.period = "QTR" /\ item.fiscal_period = Str("FY")
    THEN Str("Q4") ELSE item.fiscal_period

\* sub_dict as handed to IntrinioBalanceSheetData(**sub_dict).
sub_dict_of(q, item) ==
    LET d0 == fill_sub_dict(EmptyDict, item.financials)
        d1 == dict_set(d0, "period_ending", item.period_ending)
        d2 == dict_set(d1, "fiscal_year", item.fiscal_year)
    IN  dict_set(d2, "fiscal_period", fiscal_period_out(q, item))

\* replace_zero: {k: None if v == 0 else v for k, v in values.items()}
replace_zero_identity(values) == values
replace_zero(values) ==
    [x \in DOMAIN values |-> IF EqZero(values[x]) THEN None ELSE values[x]]

\* The model's field assignment: a declared field takes the entry keyed by
\* its vendor tag (its own name for the base fields) and defaults to None;
\* an entry that names no declared field is dropped.
field_key(f) == IF f \in StandardFields THEN alias_dict[f] ELSE f
populate_fields(values) ==
    [f \in StandardFields \cup BaseFields |->
        IF field_key(f) \in DOMAIN values THEN values[field_key(f)] ELSE None]

\* IntrinioBalanceSheetData(**sub_dict)
IntrinioBalanceSheetData(values) == populate_fields(replace_zero(values))

transform_item(q, item) == IntrinioBalanceSheetData(sub_dict_of(q, item))

\* transformed_data: one record appended per item of data, in order.
transform_data_skip_empty(q, data) ==
    LET kept == SelectSeq(data, LAMBDA item : item.financials # <<>>)
    IN  [i \in 1..Len(kept) |-> transform_item(q, kept[i])]
transform_data(q, data) ==
    [i \in 1..Len(data) |-> transform_item(q, data[i])]

\* ------------------------------------------------------------------- inputs

SymbolChars == {"B", "-", "."}
Symbols == SeqsUpTo(SymbolChars, MaxSymLen)
Periods == PeriodLiteral \cup {"monthly"}
FiscalYears ==
    {None} \cup {Num(y) : y \in (FiscalYearFloor - 1)..(FiscalYearFloor + 1)}

\* limit is declared by the base query class: a positive integer.
Limits == 1..MaxLimit

\* Caller mappings: every symbol for the query stage, one share-class symbol
\* ("B-B") for the fetch stage.
QueryInputs ==
    [symbol : Symbols, period : Periods, fiscal_year : FiscalYears,
     limit : Limits]
FetchInputs ==
    [symbol : {<<"B", "-", "B">>}, period : Periods,
     fiscal_year : FiscalYears, limit : Limits]

ApiCredentials == [intrinio_api_key |-> "key"]

\* Listing entries the vendor may send; the last one lacks fiscal_period.
ListingEntries ==
    {[fiscal_year |-> FiscalYearFloor + 1, fiscal_period |-> "FY"],
     [fiscal_year |-> FiscalYearFloor + 1, fiscal_period |-> "Q1"],
     [fiscal_year |-> FiscalYearFloor + 1]}
NoFundamentals == [company |-> "B.B"]
ListingBodies ==
    {NoFundamentals} \cup
    {[fundamentals |-> l] : l \in SeqsUpTo(ListingEntries, MaxListing)}
ShortListingBodies ==
    {NoFundamentals,
     [fundamentals |-> <<>>],
     [fundamentals |-> <<[fiscal_year |-> FiscalYearFloor + 1,
                          fiscal_period |-> "FY"],
                         [fiscal_year |-> FiscalYearFloor + 1,
                          fiscal_period |-> "Q1"]>>]}

\* Line items of a statement.
Tags == {"cashandequivalents", "unknowntag"}
Values == {None, Num(0), Num(3), Str(""), Str("0"), Str("3")}
LineItems == [data_tag : [tag : Tags], value : Values]
SampleFinancials ==
    {<<>>, <<[data_tag |-> [tag |-> "cashandequivalents"], value |-> Num(3)]>>}

\* The vendor's answer to a per-period request: the statement of the period
\* the url names, or a body without its line items.
end_date_of(period) == [k |-> "date", of |-> period]
fundamental_of(url) ==
    [end_date |-> end_date_of(url.period),
     fiscal_year |-> Num(url.period[1]),
     fiscal_period |-> Str(url.period[2])]
StatementBodies(url) ==
    {[fundamental |-> fundamental_of(url)]} \cup
    {[fundamental |-> fundamental_of(url), standardized_financials |-> f] :
        f \in SampleFinancials}

\* ------------------------------------------------------------------ actions

Init ==
    /\ pc = "start"
    /\ params = None
    /\ query = NoQuery
    /\ credentials = None
    /\ warnings = 0
    /\ listingUrl = None
    /\ listing = <<>>
    /\ urls = <<>>
    /\ slots = <<>>
    /\ overtaken = FALSE
    /\ result = NoResult
    /\ records = NoResult

\* transform_query(params)
TransformQuery(inputs) ==
    /\ pc = "start"
    /\ \E p \in inputs :
        /\ params' = p
        /\ query' = transform_query(p)
        /\ pc' = IF transform_query(p) = NoQuery THEN "invalid"
                 ELSE "constructed"
    /\ UNCHANGED <<credentials, warnings, listingUrl, listing, urls, slots,
                   overtaken, result, records>>

\* aextract_data up to the await of get_data_one: the api key, the
\* fiscal_year block (warning, clamp written to the query) and the url.
RequestListing(creds) ==
    /\ pc = "constructed"
    /\ \E c \in creds :
        /\ credentials' = c
        /\ listingUrl' = fundamentals_url(clamped_query(query), api_key_of(c))
    /\ warnings' = warnings + clamp_warnings(query)
    /\ query' = clamped_query(query)
    /\ pc' = "listing"
    /\ UNCHANGED <<params, listing, urls, slots, overtaken, result, records>>

\* get_data_one raises: the exception leaves aextract_data.
ListingFails ==
    /\ pc = "listing"
    /\ pc' = "failed"
    /\ UNCHANGED <<params, query, credentials, warnings, listingUrl, listing,
                   urls, slots, overtaken, result, records>>

\* get_data_one returns a body: the periods are read and truncated, the urls
\* built and all handed to amake_requests at once.
ListingArrives(bodies) ==
    /\ pc = "listing"
    /\ \E body \in bodies :
        LET data == fundamentals_of(body)
            periods == fiscal_periods_of(data, query.limit)
            us == statement_urls(query, periods, api_key_of(credentials))
        IN  /\ listing' = data
            /\ IF \A i \in 1..Len(data) : entry_ok(data[i])
               THEN /\ urls' = us
                    /\ slots' = [i \in 1..Len(us) |-> Pending]
                    /\ pc' = "requests"
               ELSE /\ UNCHANGED <<urls, slots>>
                    /\ pc' = "failed"
    /\ UNCHANGED <<params, query, credentials, warnings, listingUrl,
                   overtaken, result, records>>

\* One per-period request completes, in any order: the response runs through
\* callback, or the request fails on the network.
Complete(i) ==
    /\ pc = "requests"
    /\ i \in DOMAIN slots
    /\ slots[i] = Pending
    /\ \E outcome \in {NetError} \cup
                      {Arrived(b, callback(b)) : b \in StatementBodies(urls[i])} :
        slots' = [slots EXCEPT ![i] = outcome]
    /\ overtaken' = (overtaken \/ \E j \in 1..(i - 1) : slots[j] = Pending)
    /\ UNCHANGED <<pc, params, query, credentials, warnings, listingUrl,
                   listing, urls, result, records>>

\* amake_requests raises: aextract_data returns nothing.
RequestsRaise ==
    /\ pc = "requests"
    /\ amake_requests_raises(slots)
    /\ pc' = "failed"
    /\ UNCHANGED <<params, query, credentials, warnings, listingUrl, listing,
                   urls, slots, overtaken, result, records>>

\* amake_requests returns: aextract_data returns its list.
RequestsReturn ==
    /\ pc = "requests"
    /\ amake_requests_returns(slots)
    /\ result' = Returned(amake_requests_result(slots))
    /\ pc' = "extracted"
    /\ UNCHANGED <<params, query, credentials, warnings, listingUrl, listing,
                   urls, slots, overtaken, records>>

\* transform_data(query, data)
TransformData ==
    /\ pc = "extracted"
    /\ records' = Returned(transform_data(query, result.list))
    /\ pc' = "done"
    /\ UNCHANGED <<params, query, credentials, warnings, listingUrl, listing,
                   urls, slots, overtaken, result>>

\* The whole fetch, for one share-class symbol and every vendor behaviour.
Next ==
    \/ TransformQuery(FetchInputs)
    \/ RequestListing({ApiCredentials})
    \/ ListingFails
    \/ ListingArrives(ListingBodies)
    \/ \E i \in DOMAIN slots : Complete(i)
    \/ RequestsRaise
    \/ RequestsReturn
    \/ TransformData

Spec == Init /\ [][Next]_vars

\* Query construction and request building, for every caller mapping.
NextQuery ==
    \/ TransformQuery(QueryInputs)
    \/ RequestListing({None, ApiCredentials})
    \/ ListingFails
    \/ ListingArrives(ShortListingBodies)

SpecQuery == Init /\ [][NextQuery]_vars

\* transform_data on arbitrary raw statements: the statements are drawn one
\* line item at a time (at most MaxData statements, MaxItems line items in
\* all), for a query built by transform_query.
RECURSIVE count_items(_)
count_items(data) ==
    IF data = <<>> THEN 0
    ELSE Len(Head(data).financials) + count_items(Tail(data))

StatementPeriods ==
    {<<FiscalYearFloor + 1, "FY">>, <<FiscalYearFloor + 1, "Q1">>}
raw_statement(period, fin) ==
    [period_ending |-> end_date_of(period), fiscal_year |-> Num(period[1]),
     fiscal_period |-> Str(period[2]), financials |-> fin]

InitTransform ==
    /\ pc = "extracted"
    /\ params \in [symbol : {<<"B", "-", "B">>}, period : PeriodLiteral,
                   fiscal_year : {None}, limit : {MaxLimit}]
    /\ query = transform_query(params)
    /\ credentials = None
    /\ warnings = 0
    /\ listingUrl = None
    /\ listing = <<>>
    /\ urls = <<>>
    /\ slots = <<>>
    /\ overtaken = FALSE
    /\ result = Returned(<<>>)
    /\ records = NoResult

DrawStatement ==
    /\ pc = "extracted"
    /\ Len(result.list) < MaxData
    /\ \E period \in StatementPeriods :
        result' = Returned(Append(result.list, raw_statement(period, <<>>)))
    /\ UNCHANGED <<pc, params, query, credentials, warnings, listingUrl,
                   listing, urls, slots, overtaken, records>>

DrawLineItem ==
    /\ pc = "extracted"
    /\ result.list # <<>>
    /\ count_items(result.list) < MaxItems
    /\ \E item \in LineItems :
        result' = [result EXCEPT
                      !.list[Len(result.list)].financials = Append(@, item)]
    /\ UNCHANGED <<pc, params, query, credentials, warnings, listingUrl,
                   listing, urls, slots, overtaken, records>>

NextTransform ==
    \/ DrawStatement
    \/ DrawLineItem
    \/ TransformData

SpecTransform == InitTransform /\ [][NextTransform]_vars

\* ------------------------------------------------------------------ claims

Range(s) == {s[i] : i \in DOMAIN s}

\* C1: construction maps period "annual" to "FY" and "quarter" to "QTR";
\* for every other period it fails and no query object exists (nothing is
\* silently mapped to "QTR").
C1_PeriodMapping ==
    pc # "start" =>
        /\ params.period = "annual" => (query # NoQuery /\ query.period = "FY")
        /\ params.period = "quarter" => (query # NoQuery /\ query.period = "QTR")
        /\ params.period \notin {"annual", "quarter"} =>
               (query = NoQuery /\ pc = "invalid")

C1_Witness == pc = "invalid" /\ params.period = "monthly" /\ query = NoQuery

\* C2: the query's symbol is the caller's symbol with every hyphen replaced
\* by a period and every other character kept in place; a symbol without
\* hyphens is unchanged; normalizing again changes nothing; the listing url
\* and every per-period url carry the normalized symbol.
C2_SymbolNormalized ==
    query # NoQuery =>
        /\ Len(query.symbol) = Len(params.symbol)
        /\ \A i \in 1..Len(params.symbol) :
               query.symbol[i] =
                   IF params.symbol[i] = "-" THEN "." ELSE params.symbol[i]
        /\ "-" \notin Range(params.symbol) => query.symbol = params.symbol
        /\ "-" \notin Range(query.symbol)
        /\ handle_symbol(query.symbol) = query.symbol
        /\ listingUrl # None => listingUrl.symbol = query.symbol
        /\ \A i \in DOMAIN urls : urls[i].symbol = query.symbol

C2_Witness ==
    /\ pc = "requests"
    /\ params.symbol = <<"-", "-">>
    /\ listingUrl.symbol = <<".", ".">>
    /\ Len(urls) = 2
    /\ urls[2].symbol = <<".", ".">>

\* C3: a constructed query keeps the caller's fiscal_year; the listing
\* request carries 2008 and one warning was emitted when the caller's year is
\* below 2008, carries the caller's year and no warning was emitted when it
\* is 2008 or later, and carries no fiscal_year parameter when none was given.
C3_FiscalYearClamp ==
    /\ pc = "constructed" =>
           (query.fiscal_year = params.fiscal_year /\ warnings = 0)
    /\ listingUrl # None =>
           IF params.fiscal_year = None
           THEN "fiscal_year" \notin DOMAIN listingUrl /\ warnings = 0
           ELSE IF params.fiscal_year.n < FiscalYearFloor
           THEN listingUrl.fiscal_year = FiscalYearFloor /\ warnings = 1
           ELSE listingUrl.fiscal_year = params.fiscal_year.n /\ warnings = 0

C3_Witness ==
    /\ pc = "listing"
    /\ params.fiscal_year = Num(FiscalYearFloor - 1)
    /\ listingUrl.fiscal_year = FiscalYearFloor
    /\ warnings = 1

\* C4: the per-period requests are exactly the first min(limit, n) entries of
\* the n-entry listing, in the vendor's order; never more than limit requests
\* are issued and no entry is requested while an earlier one is skipped.
C4_RequestsAreListingPrefix ==
    (pc \in {"requests", "failed", "extracted", "done"}
        /\ \A i \in 1..Len(listing) : entry_ok(listing[i])) =>
        /\ Len(urls) = Min(params.limit, Len(listing))
        /\ Len(urls) <= params.limit
        /\ DOMAIN slots = DOMAIN urls
        /\ \A i \in 1..Len(urls) :
               urls[i].period =
                   <<listing[i].fiscal_year, listing[i].fiscal_period>>

C4_Witness ==
    /\ pc = "requests"
    /\ Len(listing) = 3
    /\ params.limit = 2
    /\ Len(urls) = 2
    /\ urls[1].period # urls[2].period

\* C5: whatever the order in which the per-period requests complete, the
\* i-th raw statement returned by aextract_data is the response to the i-th
\* request, which is the request for the i-th entry of the truncated listing.
C5_ResultsInRequestOrder ==
    pc \in {"extracted", "done"} =>
        /\ Len(result.list) = Len(urls)
        /\ \A i \in 1..Len(urls) :
               LET r == result.list[i]
                   b == slots[i].body
               IN  /\ b.fundamental = fundamental_of(urls[i])
                   /\ r.period_ending = b.fundamental.end_date
                   /\ r.financials = b.standardized_financials
                   /\ r.fiscal_year = Num(listing[i].fiscal_year)
                   /\ r.fiscal_period = Str(listing[i].fiscal_period)

C5_Witness ==
    /\ pc = "extracted"
    /\ overtaken
    /\ Len(result.list) = 2
    /\ result.list[1].fiscal_period # result.list[2].fiscal_period
    /\ result.list[1].financials # result.list[2].financials

\* C6: a result list is returned only when the listing and every issued
\* per-period request succeeded, and it then has one raw statement per
\* request; once the listing or a per-period request has failed (network
\* failure or a body missing a field the callback reads) no result is ever
\* returned.
RequestFailed(s) ==
    s = NetError \/ (s.k = "arrived" /\ ~body_ok(s.body))

C6_AllOrNothing ==
    /\ result # NoResult =>
           /\ pc \in {"extracted", "done"}
           /\ \A i \in 1..Len(listing) : entry_ok(listing[i])
           /\ Len(result.list) = Len(urls)
           /\ \A i \in DOMAIN slots :
                  slots[i].k = "arrived" /\ body_ok(slots[i].body)
    /\ (\E i \in DOMAIN slots : RequestFailed(slots[i])) =>
           (result = NoResult /\ records = NoResult
               /\ pc \in {"requests", "failed"})
    /\ pc = "failed" => (result = NoResult /\ records = NoResult)

C6_Witness ==
    /\ pc = "failed"
    /\ result = NoResult
    /\ \E i, j \in DOMAIN slots :
           /\ slots[i].k = "arrived" /\ body_ok(slots[i].body)
           /\ RequestFailed(slots[j])

\* The standardized vendor tags and the field each one fills.
StandardTags == {alias_dict[f] : f \in StandardFields}
FieldOfTag(t) == CHOOSE f \in StandardFields : alias_dict[f] = t

\* A value that is falsy or numerically zero.
ZeroOrFalsy(v) == ~Truthy(v) \/ float(v) = Num(0)

\* The field a line item must produce.
ExpectedField(v) == IF ZeroOrFalsy(v) THEN None ELSE float(v)

\* Line item j is the last one of its statement with its tag.
LastOfTag(fin, j) ==
    \A m \in (j + 1)..Len(fin) : fin[m].data_tag.tag # fin[j].data_tag.tag

C8_QuarterlyCorrection ==
    pc = "done" =>
        \A i \in 1..Len(result.list) :
            LET raw == result.list[i].fiscal_period
                out == records.list[i].fiscal_period
            IN  /\ (params.period = "quarter" /\ raw = Str("FY")) =>
                       out = Str("Q4")
                /\ (params.period = "annual" /\ raw = Str("FY")) =>
                       out = Str("FY")
                /\ raw # Str("FY") => out = raw

C8_Witness ==
    /\ pc = "done"
    /\ params.period = "quarter"
    /\ \E i \in 1..Len(result.list) :
           /\ result.list[i].fiscal_period = Str("FY")
           /\ records.list[i].fiscal_period = Str("Q4")

\* C9: transform_data returns one record per raw statement, in the same
\* order: the i-th record carries the period_ending, the fiscal_year and (up
\* to the Q4 rewrite) the fiscal_period of the i-th statement; an empty input
\* gives an empty output.
C9_OneRecordPerStatement ==
    pc = "done" =>
        /\ Len(records.list) = Len(result.list)
        /\ result.list = <<>> => records.list = <<>>
        /\ \A i \in 1..Len(result.list) :
               LET raw == result.list[i]
                   rec == records.list[i]
               IN  /\ rec.period_ending = raw.period_ending
                   /\ rec.fiscal_year = raw.fiscal_year
                   /\ \/ rec.fiscal_period = raw.fiscal_period
                      \/ /\ raw.fiscal_period = Str("FY")
                         /\ rec.fiscal_period = Str("Q4")

C9_Witness ==
    /\ pc = "done"
    /\ Len(records.list) = 2
    /\ result.list[1].period_ending # result.list[2].period_ending
    /\ result.list[1].financials = <<>>
    /\ records.list[2].period_ending = result.list[2].period_ending

\* C10: line items with a tag outside the standardized set leave no entry in
\* the record, whose fields are the standardized fields plus period_ending,
\* fiscal_year and fiscal_period, and they do not change any field: the
\* record is the one the statement gives without those line items.
KnownItems(fin) ==
    SelectSeq(fin, LAMBDA it : it.data_tag.tag \in StandardTags)

C10_UnknownTagsDropped ==
    pc = "done" =>
        \A i \in 1..Len(result.list) :
            LET raw == result.list[i]
            IN  /\ DOMAIN records.list[i] \subseteq
                       (StandardFields \cup BaseFields)
                /\ records.list[i] =
                       transform_item(query,
                           [raw EXCEPT !.financials = KnownItems(@)])

C10_Witness ==
    /\ pc = "done"
    /\ \E i \in 1..Len(result.list) :
           /\ Len(result.list[i].financials) = 2
           /\ result.list[i].financials[1] =
                  [data_tag |-> [tag |-> "cashandequivalents"],
                   value |-> Num(3)]
           /\ result.list[i].financials[2] =
                  [data_tag |-> [tag |-> "unknowntag"], value |-> Num(3)]
           /\ "unknowntag" \notin DOMAIN records.list[i]
           /\ records.list[i].cash_and_cash_equivalents = Num(3)

\* C11: a query object is immutable once constructed: in every state after
\* construction, whatever aextract_data and transform_data have done, its
\* symbol, period, fiscal_year and limit are those it was constructed with.
C11_QueryImmutable ==
    query # NoQuery =>
        /\ query.symbol = handle_symbol(params.symbol)
        /\ query.period = validate_period(params.period)
        /\ query.fiscal_year = params.fiscal_year
        /\ query.limit = params.limit

\* The listing entries kept by the truncation to the query's limit.
Retained == SubSeq(listing, 1, Min(query.limit, Len(listing)))

\* Number of per-period requests addressed to the period token t.
RequestsFor(t) == Cardinality({i \in DOMAIN urls : urls[i].period = t})
RetainedFor(t) ==
    Cardinality({i \in DOMAIN Retained :
                    <<Retained[i].fiscal_year, Retained[i].fiscal_period>> = t})

C12_Order ==
    /\ pc \in {"start", "invalid", "constructed"} =>
           (listingUrl = None /\ urls = <<>> /\ slots = <<>>)
    /\ pc = "listing" =>
           (listingUrl # None /\ urls = <<>> /\ slots = <<>>)
    /\ pc \in {"requests", "extracted", "done"} => listingUrl # None
    /\ listingUrl # None =>
           /\ listingUrl.endpoint = "companies/fundamentals"
           /\ listingUrl.symbol = query.symbol
           /\ listingUrl.statement_code = "balance_sheet_statement"

C12_OnePerRetainedEntry ==
    (pc \in {"requests", "failed", "extracted", "done"}
        /\ \A i \in 1..Len(listing) : entry_ok(listing[i])) =>
        /\ Len(urls) = Len(Retained)
        /\ DOMAIN slots = DOMAIN urls
        /\ \A i \in DOMAIN urls :
               /\ urls[i].endpoint = "fundamentals/standardized_financials"
               /\ urls[i].symbol = query.symbol
               /\ urls[i].statement_code = "balance_sheet_statement"
               /\ RequestsFor(urls[i].period) = RetainedFor(urls[i].period)

C12_EmptyListing ==
    (pc \in {"requests", "extracted", "done"} /\ listing = <<>>) =>
        /\ urls = <<>>
        /\ slots = <<>>
        /\ pc = "requests" =>
               (amake_requests_returns(slots) /\ ~amake_requests_raises(slots))
        /\ pc # "requests" => result = Returned(<<>>)

\* C12: one listing request is issued per execution and it has completed
\* before any per-period request exists; each per-period request addresses
\* the key symbol, balance_sheet_statement, fiscal_year-fiscal_period of a
\* retained listing entry, with exactly one request per retained entry; an
\* empty listing (or a body without "fundamentals") gives no per-period
\* request and the empty list as result. Once issued, neither the listing
\* request nor the per-period requests are issued again.
C12_ListingThenOnePerPeriod ==
    /\ [](C12_Order /\ C12_OnePerRetainedEntry /\ C12_EmptyListing)
    /\ [][(listingUrl # None => listingUrl' = listingUrl)
            /\ (pc \in {"requests", "failed", "extracted", "done"} =>
                    urls' = urls)]_vars

C12_Witness ==
    /\ pc = "done"
    /\ listingUrl # None
    /\ Len(listing) = 3
    /\ query.limit = 2
    /\ Len(urls) = 2
    /\ urls[1].period = <<FiscalYearFloor + 1, "Q1">>
    /\ urls[2].period = <<FiscalYearFloor + 1, "FY">>
    /\ Len(result.list) = 2

====
